---- MODULE Spec2Model ----
(***************************************************************************)
(* ngx-jwt-auth: the client-side authentication session.                   *)
(*                                                                         *)
(*   AuthState    (src/src/auth.state.ts)     the token holder             *)
(*   AuthInterceptor (src/src/auth.interceptor.ts)  the request decorator   *)
(*   AuthService  (src/src/auth.backend.ts, second half of the file)       *)
(*                the user session, the activation latch, the session      *)
(*                operations and the streams gated on activation           *)
(*                                                                         *)
(* RxJS delivery is synchronous: a next() on a subject runs every          *)
(* subscriber before it returns, so one action below is one call (or one   *)
(* answer of an external port, or one timer) together with everything it   *)
(* publishes.  Each observable returned by activate, attempt, register and  *)
(* logout is subscribed once by its caller at the call, as in the README.   *)
(***************************************************************************)
EXTENDS Integers, Sequences, FiniteSets, Bags, TLC

\* ------------------------------------------------------------------ bounds
MaxRawLen == 2     \* longest raw token string handed to setToken or activate
MaxCalls  == 3     \* calls that add to the session's history: setUser, a
                   \* userRequired$ subscription, check(), and every call
                   \* handed to an external port (find, the exchanger)

\* ------------------------------------------------------------------ values
NULL      == "null"
Users     == {"u1", "u2"}            \* user objects T
UserIds   == {"id1"}                 \* non-null user ids
Creds     == {"c1"}                  \* credentials R
Extras    == {NULL, "x1"}            \* register's optional extra
Errors    == {"e1", "e2"}            \* errors raised by the external ports
Alphabet  == {"a", " "}              \* characters of a raw token string
NullToken == <<"null">>              \* the token cell holds null

RECURSIVE SeqsUpTo(_, _)
SeqsUpTo(S, n) ==
  IF n = 0 THEN {<<>>}
  ELSE LET P == SeqsUpTo(S, n - 1)
       IN  P \cup {Append(p, c) : p \in {q \in P : Len(q) = n - 1}, c \in S}

RawTokens == SeqsUpTo(Alphabet, MaxRawLen)

\* activate(userId, token?): a raw token string or none.
TokenArgs == RawTokens \cup {NullToken}

\* Raw strings with a tab among their characters, for the token holder.
WideAlphabet  == Alphabet \cup {"\t"}
WideRawTokens == SeqsUpTo(WideAlphabet, MaxRawLen)

\* 'Bearer '
Bearer == <<"B", "e", "a", "r", "e", "r", " ">>

\* Values of a response's Authorization header; NullToken: no such header.
HeaderValues == {NullToken, <<>>, <<"a">>, Bearer \o <<"a">>}

\* The Authorization values a request arrives with at the interceptor.
RequestHeaders == {<<>>, <<<<"x">>>>}

\* What next.handle(req) can emit and fail with.
HttpResponse(status, h)      == [kind |-> "HttpResponse", status |-> status, authorization |-> h]
HttpErrorResponse(status, h) == [kind |-> "HttpErrorResponse", status |-> status, authorization |-> h]
HttpSentEvent == [kind |-> "HttpSentEvent", status |-> 0, authorization |-> NullToken]
OtherError    == [kind |-> "Error", status |-> 0, authorization |-> NullToken]
HttpEvents == {HttpResponse(200, h) : h \in HeaderValues} \cup {HttpSentEvent}
HttpErrors == {HttpErrorResponse(st, h) : st \in {401, 500}, h \in HeaderValues}
                \cup {OtherError}

\* The traffic considered next to the session operations.
SessionRequestHeaders == RequestHeaders
SessionHttpEvents     == {HttpResponse(200, Bearer \o <<"a">>)}
SessionHttpErrors     == {HttpErrorResponse(401, NullToken)}

VARIABLES
  backend,            \* AuthBackend injected?  (constructor, @Optional)
  userProvider,       \* AuthUserService injected: NULL or "base"
  token,              \* AuthState.token (BehaviorSubject value)
  tokenOut,           \* values token$ delivered during the step just taken
  unauthorized,       \* number of next() on AuthState.unauthorized
  http,               \* what AuthInterceptor handed on in the step just taken
  currentUser,        \* AuthService.currentUser (BehaviorSubject value)
  userOut,            \* values user$ delivered during the step just taken
  authenticatedLast,  \* value authenticated$ delivered last to such a subscriber
  activated,          \* AuthService.activated (BehaviorSubject value)
  activatedSeen,      \* values activated$ delivered to a subscriber made at construction
  userRequiredFails,  \* number of next() on _userRequiredFails
  subs,               \* userRequired$ subscriptions, in subscription order
  checks,             \* check() promises, in call order
  pending,            \* bag of calls waiting for their external port
  nCalls,             \* calls counted against MaxCalls so far
  last                \* the step just taken and what its caller observed

vars == <<backend, userProvider, token, tokenOut, unauthorized, http,
          currentUser, userOut, authenticatedLast, activated, activatedSeen,
          userRequiredFails, subs, checks, pending, nCalls, last>>

\* ------------------------------------------------------------ AuthState
\* String.prototype.split(' '): the pieces between single space characters,
\* built from the right: a space starts a new first piece, any other
\* character goes in front of the first piece.
RECURSIVE Split(_)
Split(s) ==
  IF s = <<>> THEN << <<>> >>
  ELSE LET r == Split(Tail(s))
       IN  IF Head(s) = " " THEN << <<>> >> \o r
           ELSE << <<Head(s)>> \o r[1] >> \o Tail(r)

\* Variant of SetToken: parts.shift() in place of parts.pop().
SetToken_FirstPart(cur, raw) ==
  LET parts == Split(raw)
  IN  IF Len(parts) > 0 THEN parts[1] ELSE cur

\* AuthState.setToken: the new value of the token cell.
SetToken(cur, raw) ==
  LET parts == Split(raw)
  IN  IF Len(parts) > 0 THEN parts[Len(parts)] ELSE cur

\* Variant of TokenStream: token$ with distinctUntilChanged() on it.
TokenStream_Distinct(cur, new) == IF new = cur THEN <<>> ELSE <<new>>

\* token$ = token.asObservable(): what this.token.next(new) delivers on
\* token$ when the cell held cur.
TokenStream(cur, new) == <<new>>

\* AuthState.setToken(raw): the cell and its stream.  split(' ') never
\* returns an empty array, so next() runs on every call.
TokenNext(raw) ==
  /\ token' = SetToken(token, raw)
  /\ tokenOut' = TokenStream(token, token')

\* A step that does not call setToken.
TokenUntouched == token' = token /\ tokenOut' = <<>>

\* ------------------------------------------------------ AuthInterceptor
\* if (token), if (authorization): null and the empty string are falsy.
Truthy(str) == str # NullToken /\ str # <<>>

\* Variant of SetHeaders: the value added next to the ones already there.
SetHeaders_Append(headers, v) == Append(headers, v)

\* req.clone({setHeaders: {Authorization: v}}): the header's values after.
SetHeaders(headers, v) == <<v>>

\* Variant of IsUnauthorized: every error status counted.
IsUnauthorized_AnyError(status) == status >= 400

\* err.status == 401
IsUnauthorized(status) == status = 401

\* What the interceptor handed on: the request it sent (how = "sent"), or
\* the event or error it passed to its caller (how = "next", "error").
Handed(how, req, sent, event) ==
  [how |-> how, req |-> req, sent |-> sent, event |-> event]

NoHttp == Handed("none", <<>>, <<>>, HttpSentEvent)

\* A step in which the interceptor takes no part.
OutsideInterceptor == http' = NoHttp /\ unauthorized' = unauthorized

\* ---------------------------------------------------------- AuthService
\* Variant of Authenticated: a null user counted as a user (v !== undefined).
Authenticated_NullCounts(u) == TRUE

\* get authenticated(): this.user != null
Authenticated(u) == u # NULL

\* AuthUserService.parseUser: identity in the base class, overridable.
Normalize(provider, u) == IF provider = "custom" THEN "u1" ELSE u

\* Variant of ParseUser: the provider's parseUser never consulted.
ParseUser_Identity(provider, u) == u

\* parseUserObservable: through the provider when there is one.
ParseUser(provider, u) == IF provider # NULL THEN Normalize(provider, u) ELSE u

\* Variant of Deliver: concatMap in place of the second mergeMap, a value
\* waits behind a pending delayed null.
Deliver_ConcatMap(s, u) ==
  IF u = NULL \/ s.timers > 0
  THEN [s EXCEPT !.timers = @ + 1]
  ELSE [s EXCEPT !.out = Append(@, u)]

\* The second mergeMap of userRequired$ applied to one user value.
Deliver(s, u) ==
  IF u = NULL
  THEN [s EXCEPT !.timers = @ + 1]
  ELSE [s EXCEPT !.out = Append(@, u)]

\* currentUser.next(u) as seen by the userRequired$ subscriptions.
PublishUser(S, u) ==
  [i \in DOMAIN S |-> IF S[i].attached THEN Deliver(S[i], u) ELSE S[i]]

FailsOnPublish(S, u) ==
  IF u = NULL THEN Cardinality({i \in DOMAIN S : S[i].attached}) ELSE 0

\* Variant of DistinctUntilChanged: the operator left off activated$.
DistinctUntilChanged_Off(log, v) == Append(log, v)

\* distinctUntilChanged on a stream whose deliveries so far are log.
DistinctUntilChanged(log, v) ==
  IF log # <<>> /\ log[Len(log)] = v THEN log ELSE Append(log, v)

\* Variant of Released: whenActivated() without filter((v) => v).
Released_NoFilter(waiting, v) == waiting

\* whenActivated(): filter(v => v).first() lets a waiter through once.
Released(waiting, v) == waiting /\ v

\* activated.next(v) as seen by the userRequired$ subscriptions; u is the
\* user held at that moment.
OpenSubs(S, v, u) ==
  [i \in DOMAIN S |->
     IF Released(~S[i].attached, v)
     THEN Deliver([S[i] EXCEPT !.attached = TRUE], u)
     ELSE S[i]]

FailsOnOpen(S, v, u) ==
  IF u = NULL
  THEN Cardinality({i \in DOMAIN S : Released(~S[i].attached, v)})
  ELSE 0

\* Variant of OpenChecks: whenActivated() without first(), so that every
\* activated.next(true) runs the promise's chain again.
OpenChecks_NoFirst(C, v, u) ==
  [i \in DOMAIN C |->
     IF v
     THEN [done |-> TRUE, value |-> Authenticated(u), n |-> C[i].n + 1]
     ELSE C[i]]

\* activated.next(v) as seen by the pending check() promises.
OpenChecks(C, v, u) ==
  [i \in DOMAIN C |->
     IF Released(~C[i].done, v)
     THEN [done |-> TRUE, value |-> Authenticated(u), n |-> C[i].n + 1]
     ELSE C[i]]

\* Variant of UserStream: user$ with distinctUntilChanged() on it.
UserStream_Distinct(cur, u) == IF u = cur THEN <<>> ELSE <<u>>

\* user$ = currentUser.asObservable(): what currentUser.next(u) delivers on
\* user$ when the cell held cur.
UserStream(cur, u) == <<u>>

\* authenticated$ = user$.map(v => v != null).distinctUntilChanged(): the
\* value its subscriber holds after user u is published.
AuthenticatedStream(prev, u) ==
  LET log == DistinctUntilChanged(<<prev>>, Authenticated(u))
  IN  log[Len(log)]

\* currentUser.next(u): the cell and its two streams.
CurrentUserNext(u) ==
  /\ currentUser' = u
  /\ userOut' = UserStream(currentUser, u)
  /\ authenticatedLast' = AuthenticatedStream(authenticatedLast, u)

\* A step that does not call setUser.
UserUntouched ==
  /\ currentUser' = currentUser
  /\ userOut' = <<>>
  /\ authenticatedLast' = authenticatedLast

\* A step in which the session takes no part.
OutsideSession ==
  /\ UserUntouched
  /\ UNCHANGED <<backend, userProvider, activated, activatedSeen,
                 userRequiredFails, subs, checks>>

\* What the caller of the step just taken observed: op is the session call
\* the step belongs to ("call" for the others), how is "returned", "threw",
\* "next" or "error", result is the value or error that reached the caller.
Event(op, how, result) == [op |-> op, how |-> how, result |-> result]

\* Observable.do(next, error): the value or error goes on unchanged.
Do(x) == x

Call(kind, arg) == [kind |-> kind, req |-> arg]

\* Variant of Enqueue: a call equal to one in flight shares its answer.
Enqueue_Coalesced(P, c) == IF BagIn(c, P) THEN P ELSE P (+) SetToBag({c})

\* Each call makes its own request to the port and is answered on its own.
Enqueue(P, c) == P (+) SetToBag({c})

\* One answer ends one call.
Dequeue(P, c) == P (-) SetToBag({c})

TypeOK ==
  /\ backend \in BOOLEAN
  /\ userProvider \in {NULL, "base", "custom"}
  /\ token \in WideRawTokens \cup {NullToken}
  /\ tokenOut \in {<<>>, <<token>>}
  /\ unauthorized \in 0..MaxCalls
  /\ http.how \in {"none", "sent", "next", "error"}
  /\ userOut \in {<<>>, <<currentUser>>}
  /\ currentUser \in Users \cup {NULL}
  /\ activated \in BOOLEAN
  /\ userRequiredFails \in Nat
  /\ Len(subs) + Len(checks) <= MaxCalls
  /\ nCalls \in 0..MaxCalls

Init ==
  /\ backend \in BOOLEAN
  /\ userProvider \in {NULL, "base"}
  /\ token = NullToken
  /\ tokenOut = <<NullToken>>
  /\ unauthorized = 0
  /\ http = NoHttp
  /\ currentUser = NULL
  /\ userOut = <<NULL>>
  /\ authenticatedLast = FALSE
  /\ activated = FALSE
  /\ activatedSeen = <<FALSE>>
  /\ userRequiredFails = 0
  /\ subs = <<>>
  /\ checks = <<>>
  /\ pending = EmptyBag
  /\ nCalls = 0
  /\ last = Event("call", "returned", NULL)

Config == <<backend, userProvider>>

\* AuthState.setToken(raw)
StateSetToken(raw) ==
  /\ TokenNext(raw)
  /\ last' = Event("call", "returned", NULL)
  /\ OutsideInterceptor
  /\ UserUntouched
  /\ UNCHANGED <<Config, activated, activatedSeen, userRequiredFails,
                 subs, checks, pending, nCalls>>

\* AuthService.setUser(user)
SetUser(u) ==
  /\ nCalls < MaxCalls
  /\ nCalls' = nCalls + 1
  /\ CurrentUserNext(u)
  /\ subs' = PublishUser(subs, u)
  /\ userRequiredFails' = userRequiredFails + FailsOnPublish(subs, u)
  /\ last' = Event("call", "returned", NULL)
  /\ TokenUntouched
  /\ OutsideInterceptor
  /\ UNCHANGED <<Config, activated, activatedSeen, checks, pending>>

\* Variant of SetUserThenActivate: activated.next(true) before setUser(u).
SetUserThenActivate_Swapped(u) ==
  LET S1 == OpenSubs(subs, TRUE, currentUser)
  IN  /\ CurrentUserNext(u)
      /\ activated' = TRUE
      /\ activatedSeen' = DistinctUntilChanged(activatedSeen, TRUE)
      /\ subs' = PublishUser(S1, u)
      /\ userRequiredFails' =
           userRequiredFails + FailsOnOpen(subs, TRUE, currentUser) + FailsOnPublish(S1, u)
      /\ checks' = OpenChecks(checks, TRUE, currentUser)

\* setUser(u) followed by activated.next(true): the two statements of the
\* null branch of activate and of the next callback on find().
SetUserThenActivate(u) ==
  LET S1 == PublishUser(subs, u)
  IN  /\ CurrentUserNext(u)
      /\ activated' = TRUE
      /\ activatedSeen' = DistinctUntilChanged(activatedSeen, TRUE)
      /\ subs' = OpenSubs(S1, TRUE, u)
      /\ userRequiredFails' =
           userRequiredFails + FailsOnPublish(subs, u) + FailsOnOpen(S1, TRUE, u)
      /\ checks' = OpenChecks(checks, TRUE, u)

\* Variant of ActivateOnly: find() used with a next callback only.
ActivateOnly_NoErrorCallback ==
  /\ UserUntouched
  /\ UNCHANGED <<activated, activatedSeen, subs, userRequiredFails, checks>>

\* Variant of ActivateOnly: the error callback also calls setUser(null).
ActivateOnly_ClearsUser == SetUserThenActivate(NULL)

\* activated.next(true) alone: the error callback on find().
ActivateOnly ==
  /\ activated' = TRUE
  /\ activatedSeen' = DistinctUntilChanged(activatedSeen, TRUE)
  /\ subs' = OpenSubs(subs, TRUE, currentUser)
  /\ userRequiredFails' = userRequiredFails + FailsOnOpen(subs, TRUE, currentUser)
  /\ checks' = OpenChecks(checks, TRUE, currentUser)
  /\ UserUntouched

\* Variant of AlreadyActivated: the re-activation check left out.
AlreadyActivated_Never == FALSE

\* const alreadyActivated = this.activated.getValue()
AlreadyActivated == activated

\* Variant of Activate: the two checks that throw made before setToken.
Activate_ThrowsFirst(userId, t) ==
  /\ OutsideInterceptor
  /\ IF userId = NULL
     THEN IF AlreadyActivated
          THEN /\ last' = Event("activate", "threw", "ReactivationError")
               /\ TokenUntouched
               /\ UserUntouched
               /\ UNCHANGED <<activated, activatedSeen, userRequiredFails,
                              subs, checks, pending, nCalls>>
          ELSE /\ IF t # NullToken THEN TokenNext(t) ELSE TokenUntouched
               /\ SetUserThenActivate(NULL)
               /\ last' = Event("activate", "next", NULL)
               /\ UNCHANGED <<pending, nCalls>>
     ELSE IF userProvider = NULL
          THEN /\ last' = Event("activate", "threw", "MissingResolverError")
               /\ TokenUntouched
               /\ UserUntouched
               /\ UNCHANGED <<activated, activatedSeen, userRequiredFails,
                              subs, checks, pending, nCalls>>
          ELSE /\ IF t # NullToken THEN TokenNext(t) ELSE TokenUntouched
               /\ nCalls < MaxCalls
               /\ nCalls' = nCalls + 1
               /\ pending' = Enqueue(pending, Call("activate", userId))
               /\ last' = Event("activate", "returned", NULL)
               /\ UserUntouched
               /\ UNCHANGED <<activated, activatedSeen, userRequiredFails,
                              subs, checks>>
  /\ UNCHANGED Config

\* AuthService.activate(userId, token)
Activate(userId, t) ==
  /\ IF t # NullToken
     THEN TokenNext(t)
     ELSE TokenUntouched
  /\ OutsideInterceptor
  /\ IF userId = NULL
     THEN IF AlreadyActivated
          THEN /\ last' = Event("activate", "threw", "ReactivationError")
               /\ UserUntouched
               /\ UNCHANGED <<activated, activatedSeen, userRequiredFails,
                              subs, checks, pending, nCalls>>
          ELSE /\ SetUserThenActivate(NULL)
               /\ last' = Event("activate", "next", NULL)
               /\ UNCHANGED <<pending, nCalls>>
     ELSE IF userProvider = NULL
          THEN /\ last' = Event("activate", "threw", "MissingResolverError")
               /\ UserUntouched
               /\ UNCHANGED <<activated, activatedSeen, userRequiredFails,
                              subs, checks, pending, nCalls>>
          ELSE /\ nCalls < MaxCalls
               /\ nCalls' = nCalls + 1
               /\ pending' = Enqueue(pending, Call("activate", userId))
               /\ last' = Event("activate", "returned", NULL)
               /\ UserUntouched
               /\ UNCHANGED <<activated, activatedSeen, userRequiredFails,
                              subs, checks>>
  /\ UNCHANGED Config

\* userProvider.find(userId) emits user: the next callback of activate.
FindNext(c, v) ==
  /\ BagIn(c, pending) /\ c.kind = "activate"
  /\ pending' = Dequeue(pending, c)
  /\ SetUserThenActivate(v)
  /\ last' = Event("activate", "next", Do(v))
  /\ TokenUntouched
  /\ OutsideInterceptor
  /\ UNCHANGED <<Config, nCalls>>

\* userProvider.find(userId) fails: the error callback of activate.
FindError(c, e) ==
  /\ BagIn(c, pending) /\ c.kind = "activate"
  /\ pending' = Dequeue(pending, c)
  /\ ActivateOnly
  /\ last' = Event("activate", "error", Do(e))
  /\ TokenUntouched
  /\ OutsideInterceptor
  /\ UNCHANGED <<Config, nCalls>>

\* Subscribing to the userRequired$ getter's observable.
UserRequired ==
  /\ nCalls < MaxCalls
  /\ nCalls' = nCalls + 1
  /\ LET s0 == [attached |-> FALSE, out |-> <<>>, timers |-> 0]
     IN  /\ subs' = subs \o OpenSubs(<<s0>>, activated, currentUser)
         /\ userRequiredFails' =
              userRequiredFails + FailsOnOpen(<<s0>>, activated, currentUser)
  /\ last' = Event("call", "returned", NULL)
  /\ TokenUntouched
  /\ OutsideInterceptor
  /\ UserUntouched
  /\ UNCHANGED <<Config, activated, activatedSeen, checks,
                 pending>>

\* Observable.of(user).delay(999999) of subscription i comes due.
DelayElapsed(i) ==
  /\ i \in DOMAIN subs
  /\ subs[i].timers > 0
  /\ subs' = [subs EXCEPT ![i] = [@ EXCEPT !.timers = @ - 1, !.out = Append(@, NULL)]]
  /\ last' = Event("call", "returned", NULL)
  /\ TokenUntouched
  /\ OutsideInterceptor
  /\ UserUntouched
  /\ UNCHANGED <<Config, activated, activatedSeen,
                 userRequiredFails, checks, pending, nCalls>>

\* AuthService.check()
Check ==
  /\ nCalls < MaxCalls
  /\ nCalls' = nCalls + 1
  /\ LET c0 == [done |-> FALSE, value |-> FALSE, n |-> 0]
     IN  checks' = checks \o OpenChecks(<<c0>>, activated, currentUser)
  /\ last' = Event("call", "returned", NULL)
  /\ TokenUntouched
  /\ OutsideInterceptor
  /\ UserUntouched
  /\ UNCHANGED <<Config, activated, activatedSeen,
                 userRequiredFails, subs, pending>>

\* Variant of ToBackend: the test for a missing backend left out.
ToBackend_NoCheck(kind, arg, req) ==
  /\ nCalls < MaxCalls
  /\ nCalls' = nCalls + 1
  /\ pending' = Enqueue(pending, Call(kind, req))
  /\ last' = Event(kind, "returned", NULL)
  /\ TokenUntouched
  /\ OutsideInterceptor
  /\ UserUntouched
  /\ UNCHANGED <<Config, activated, activatedSeen, userRequiredFails, subs, checks>>

\* A call that needs the AuthBackend: thrown at the call without one,
\* otherwise handed to the backend with the arguments req.
ToBackend(kind, arg, req) ==
  /\ IF ~backend
     THEN /\ last' = Event(kind, "threw", "MissingBackendError")
          /\ UNCHANGED <<pending, nCalls>>
     ELSE /\ nCalls < MaxCalls
          /\ nCalls' = nCalls + 1
          /\ pending' = Enqueue(pending, Call(kind, req))
          /\ last' = Event(kind, "returned", NULL)
  /\ TokenUntouched
  /\ OutsideInterceptor
  /\ UserUntouched
  /\ UNCHANGED <<Config, activated, activatedSeen,
                 userRequiredFails, subs, checks>>

\* AuthService.attempt(credentials)
Attempt(cr) == ToBackend("attempt", cr, cr)

\* AuthService.register(credentials, extra): createUserFromCredentials
\* passes the credentials on.
Register(cr, extra) == ToBackend("register", <<cr, extra>>, cr)

\* Variant of Logout: deleteUserSession() called without the user.
Logout_NoUser == ToBackend("logout", NULL, NULL)

\* AuthService.logout(): deleteUserSession(this.user)
Logout == ToBackend("logout", NULL, currentUser)

\* Variant of ExchangeNext: setUser held back until the latch is open.
ExchangeNext_Gated(c, v) ==
  /\ BagIn(c, pending) /\ c.kind \in {"attempt", "register"}
  /\ pending' = Dequeue(pending, c)
  /\ LET u == ParseUser(userProvider, v)
     IN  /\ IF activated THEN CurrentUserNext(u) ELSE UserUntouched
         /\ subs' = PublishUser(subs, u)
         /\ userRequiredFails' = userRequiredFails + FailsOnPublish(subs, u)
         /\ last' = Event(c.kind, "next", Do(u))
  /\ TokenUntouched
  /\ OutsideInterceptor
  /\ UNCHANGED <<Config, activated, activatedSeen, checks, nCalls>>

\* The exchanger emits user v for an attempt or a register.
ExchangeNext(c, v) ==
  /\ BagIn(c, pending) /\ c.kind \in {"attempt", "register"}
  /\ pending' = Dequeue(pending, c)
  /\ LET u == ParseUser(userProvider, v)
     IN  /\ CurrentUserNext(u)
         /\ subs' = PublishUser(subs, u)
         /\ userRequiredFails' = userRequiredFails + FailsOnPublish(subs, u)
         /\ last' = Event(c.kind, "next", Do(u))
  /\ TokenUntouched
  /\ OutsideInterceptor
  /\ UNCHANGED <<Config, activated, activatedSeen, checks, nCalls>>

\* Variant of DeleteNext: the token dropped together with the user.
DeleteNext_ClearsToken(c) ==
  /\ BagIn(c, pending) /\ c.kind = "logout"
  /\ pending' = Dequeue(pending, c)
  /\ CurrentUserNext(NULL)
  /\ subs' = PublishUser(subs, NULL)
  /\ userRequiredFails' = userRequiredFails + FailsOnPublish(subs, NULL)
  /\ last' = Event("logout", "next", NULL)
  /\ token' = NullToken /\ tokenOut' = <<NullToken>>
  /\ OutsideInterceptor
  /\ UNCHANGED <<Config, activated, activatedSeen, checks, nCalls>>

\* The exchanger emits for a logout.
DeleteNext(c) ==
  /\ BagIn(c, pending) /\ c.kind = "logout"
  /\ pending' = Dequeue(pending, c)
  /\ CurrentUserNext(NULL)
  /\ subs' = PublishUser(subs, NULL)
  /\ userRequiredFails' = userRequiredFails + FailsOnPublish(subs, NULL)
  /\ last' = Event("logout", "next", NULL)
  /\ TokenUntouched
  /\ OutsideInterceptor
  /\ UNCHANGED <<Config, activated, activatedSeen, checks, nCalls>>

\* The exchanger fails an attempt, a register or a logout.
ExchangeError(c, e) ==
  /\ BagIn(c, pending) /\ c.kind \in {"attempt", "register", "logout"}
  /\ pending' = Dequeue(pending, c)
  /\ last' = Event(c.kind, "error", Do(e))
  /\ TokenUntouched
  /\ OutsideInterceptor
  /\ UserUntouched
  /\ UNCHANGED <<Config, activated, activatedSeen,
                 userRequiredFails, subs, checks, nCalls>>

\* AuthInterceptor.intercept(req, next) up to next.handle(req); req stands
\* for the values of the request's Authorization header.
Intercept(req) ==
  /\ nCalls < MaxCalls
  /\ nCalls' = nCalls + 1
  /\ LET t    == token
         sent == IF Truthy(t) THEN SetHeaders(req, Bearer \o t) ELSE req
     IN  http' = Handed("sent", req, sent, HttpSentEvent)
  /\ pending' = Enqueue(pending, Call("http", NULL))
  /\ last' = Event("call", "returned", NULL)
  /\ TokenUntouched
  /\ unauthorized' = unauthorized
  /\ OutsideSession

\* handleResponseHeader(event)
HandleResponseHeader(event) ==
  IF Truthy(event.authorization)
  THEN TokenNext(event.authorization)
  ELSE TokenUntouched

\* next.handle(req) emits event: the next callback of intercept's do().
HttpNext(c, event) ==
  /\ BagIn(c, pending) /\ c.kind = "http"
  /\ IF event.kind = "HttpResponse"
     THEN HandleResponseHeader(event) /\ pending' = Dequeue(pending, c)
     ELSE TokenUntouched /\ pending' = pending
  /\ http' = Handed("next", <<>>, <<>>, Do(event))
  /\ last' = Event("call", "returned", NULL)
  /\ UNCHANGED <<unauthorized, nCalls>>
  /\ OutsideSession

\* next.handle(req) fails with err: the error callback of intercept's do().
HttpError(c, err) ==
  /\ BagIn(c, pending) /\ c.kind = "http"
  /\ pending' = Dequeue(pending, c)
  /\ IF err.kind = "HttpErrorResponse"
     THEN /\ HandleResponseHeader(err)
          /\ unauthorized' = unauthorized + (IF IsUnauthorized(err.status) THEN 1 ELSE 0)
     ELSE TokenUntouched /\ unauthorized' = unauthorized
  /\ http' = Handed("error", <<>>, <<>>, Do(err))
  /\ last' = Event("call", "returned", NULL)
  /\ UNCHANGED nCalls
  /\ OutsideSession

Next ==
  \/ \E raw \in RawTokens : StateSetToken(raw)
  \/ \E u \in Users \cup {NULL} : SetUser(u)
  \/ \E id \in UserIds \cup {NULL}, t \in TokenArgs : Activate(id, t)
  \/ \E c \in BagToSet(pending), v \in Users : FindNext(c, v)
  \/ \E c \in BagToSet(pending), e \in Errors : FindError(c, e)
  \/ UserRequired
  \/ \E i \in DOMAIN subs : DelayElapsed(i)
  \/ Check
  \/ \E cr \in Creds : Attempt(cr)
  \/ \E cr \in Creds, extra \in Extras : Register(cr, extra)
  \/ Logout
  \/ \E c \in BagToSet(pending), v \in Users : ExchangeNext(c, v)
  \/ \E c \in BagToSet(pending) : DeleteNext(c)
  \/ \E c \in BagToSet(pending), e \in Errors : ExchangeError(c, e)

Spec == Init /\ [][Next]_vars

\* The session with HTTP traffic through the interceptor next to it, in an
\* application that injects both optional dependencies.
NextApp ==
  \/ Next
  \/ \E req \in SessionRequestHeaders : Intercept(req)
  \/ \E c \in BagToSet(pending), event \in SessionHttpEvents : HttpNext(c, event)
  \/ \E c \in BagToSet(pending), err \in SessionHttpErrors : HttpError(c, err)

\* An application that injects an AuthBackend and an AuthUserService.
InitApp == Init /\ backend /\ userProvider = "base"

SpecApp == InitApp /\ [][NextApp]_vars

\* The token holder and the interceptor by themselves, in an application
\* that injects neither an AuthBackend nor an AuthUserService and makes no
\* session call; raw strings and traffic range over the wide sets.
InitToken == Init /\ ~backend /\ userProvider = NULL

NextToken ==
  \/ \E raw \in WideRawTokens : StateSetToken(raw)
  \/ \E req \in RequestHeaders : Intercept(req)
  \/ \E c \in BagToSet(pending), event \in HttpEvents : HttpNext(c, event)
  \/ \E c \in BagToSet(pending), err \in HttpErrors : HttpError(c, err)

SpecToken == InitToken /\ [][NextToken]_vars

\* Applications with an AuthBackend, and with an AuthUserService that
\* overrides parseUser or with none.
InitCustom ==
  /\ backend = TRUE
  /\ userProvider \in {NULL, "custom"}
  /\ token = NullToken
  /\ tokenOut = <<NullToken>>
  /\ unauthorized = 0
  /\ http = NoHttp
  /\ currentUser = NULL
  /\ userOut = <<NULL>>
  /\ authenticatedLast = FALSE
  /\ activated = FALSE
  /\ activatedSeen = <<FALSE>>
  /\ userRequiredFails = 0
  /\ subs = <<>>
  /\ checks = <<>>
  /\ pending = EmptyBag
  /\ nCalls = 0
  /\ last = Event("call", "returned", NULL)

SpecCustom == InitCustom /\ [][Next]_vars

\* Activation by itself: the calls and callbacks of activate, next to direct
\* writes of the token and the user and to userRequired$ subscriptions.
NextActivation ==
  \/ \E raw \in RawTokens : StateSetToken(raw)
  \/ \E u \in Users \cup {NULL} : SetUser(u)
  \/ \E id \in UserIds \cup {NULL}, t \in TokenArgs : Activate(id, t)
  \/ \E c \in BagToSet(pending), v \in Users : FindNext(c, v)
  \/ \E c \in BagToSet(pending), e \in Errors : FindError(c, e)
  \/ UserRequired

SpecActivation == Init /\ [][NextActivation]_vars

\* ================================================================ claims
ActivateFinished == last.op = "activate" /\ last.how \in {"next", "error", "threw"}

\* C1 as stated: once a call to activate has finished (it returned, it threw,
\* or the resolver has answered) the activation latch is true, whatever the
\* arguments and whether or not a User Resolver is configured.
C1_LatchAfterAnyActivate == ActivateFinished => activated

\* C1, amended: once a call to activate has finished the latch is true, except
\* for the call that throws MissingResolverError (non-null user id, no User
\* Resolver configured), which leaves the latch as it was.
C1_LatchAfterActivate ==
  /\ [](ActivateFinished /\ last.result # "MissingResolverError" => activated)
  /\ [][last'.result = "MissingResolverError" => activated' = activated]_vars

\* The resolver failed and the latch is open.
C1_Witness ==
  /\ last.op = "activate" /\ last.how = "error" /\ last.result \in Errors
  /\ activated

\* C2 as stated: no attempt or register delivers its result, or sets the user,
\* while the activation latch is false.
C2_ExchangeWaitsForLatch ==
  (last.op \in {"attempt", "register"} /\ last.how = "next") => activated

\* C2, amended: attempt and register are not held back by the latch; when the
\* Credential Exchanger answers, the parsed user is stored and delivered to the
\* caller in that step and the latch is left as it was, open or not.  What
\* stays pending until the latch opens are userRequired and check().
C2_ExchangeNotGated ==
  /\ [][\A c \in BagToSet(pending), v \in Users :
          ExchangeNext(c, v)
            => /\ currentUser' = ParseUser(userProvider, v)
               /\ last'.how = "next" /\ last'.result = currentUser'
               /\ activated' = activated]_vars
  /\ [](~activated => /\ \A i \in DOMAIN subs : subs[i].out = <<>>
                      /\ \A i \in DOMAIN checks : ~checks[i].done)

\* A login was answered, stored and delivered before activation, while a
\* check() is still waiting for the latch.
C2_Witness ==
  /\ ~activated
  /\ last.op = "attempt" /\ last.how = "next"
  /\ currentUser \in Users /\ last.result = currentUser
  /\ \E i \in DOMAIN checks : ~checks[i].done

\* C3 as stated: a null user is never delivered to a subscriber of
\* userRequired, however long the subscription stays open.
C3_NullNeverDelivered ==
  \A i \in DOMAIN subs : \A k \in DOMAIN subs[i].out : subs[i].out[k] # NULL

\* C4: the latch starts false and never goes back from true to false, and
\* activated$ reports true to a subscriber at most once, also when
\* activated.next(true) runs again for a later activate with a user id.
C4_LatchMonotonic ==
  /\ activated = FALSE
  /\ [][activated => activated']_vars
  /\ [](Cardinality({k \in DOMAIN activatedSeen : activatedSeen[k]}) <= 1)

\* A resolver answered when the latch was already open (a check() had
\* resolved false before), and activated$ has reported true once.
C4_Witness ==
  /\ last.op = "activate" /\ last.how = "next" /\ last.result \in Users
  /\ \E i \in DOMAIN checks : checks[i].done /\ ~checks[i].value
  /\ activatedSeen = <<FALSE, TRUE>>

\* The step just taken was a call of activate with a null user id: only that
\* call throws ReactivationError or hands its caller a null user.
NullActivation ==
  /\ last.op = "activate"
  /\ \/ last.how = "threw" /\ last.result = "ReactivationError"
     \/ last.how = "next" /\ last.result = NULL

\* C5: activate with a null user id on an unactivated service succeeds with
\* no user and leaves the latch true and the user null; on an activated
\* service it fails with ReactivationError and leaves the latch true and the
\* user as it was.
C5_NullActivation ==
  [][NullActivation'
       => IF activated
          THEN /\ last' = Event("activate", "threw", "ReactivationError")
               /\ activated' /\ currentUser' = currentUser
          ELSE /\ last' = Event("activate", "next", NULL)
               /\ activated' /\ currentUser' = NULL]_vars

\* A second activate(null) has failed and left a non-null user in place.
C5_Witness ==
  /\ last = Event("activate", "threw", "ReactivationError")
  /\ activated /\ currentUser \in Users

\* C6: when the resolver fails, the latch becomes true, the activation sets
\* no user (the user is left as it was, null on a fresh service) and the
\* caller of activate receives the resolver's error unchanged.
C6_ResolverFails ==
  [][\A c \in BagToSet(pending), e \in Errors :
       FindError(c, e)
         => /\ activated'
            /\ currentUser' = currentUser
            /\ last' = Event("activate", "error", e)]_vars

\* The resolver failed with e2: latch open, user still null, e2 at the caller.
C6_Witness ==
  /\ last = Event("activate", "error", "e2")
  /\ activated /\ currentUser = NULL

\* The part of a raw string after its last space, the whole of it without one.
AfterLastSpace(raw) ==
  LET sp == {i \in 1..Len(raw) : raw[i] = " "}
  IN  IF sp = {} THEN raw
      ELSE SubSeq(raw, (CHOOSE i \in sp : \A j \in sp : j <= i) + 1, Len(raw))

Restored == last.op = "activate" /\ last.how = "next" /\ last.result \in Users

\* C8: while the latch is false nothing gated on it has heard anything, and
\* the resolver's answer that opens the latch stores the user first: that
\* step emits no user-required-failed notification and every check() it
\* resolves is true.
C8_NoUnauthenticatedGap ==
  /\ [](~activated => /\ userRequiredFails = 0
                      /\ \A i \in DOMAIN checks : ~checks[i].done)
  /\ [][\A c \in BagToSet(pending), v \in Users :
          FindNext(c, v) /\ ~activated
            => /\ userRequiredFails' = 0
               /\ \A i \in DOMAIN subs' : subs'[i].timers = 0
               /\ \A i \in DOMAIN checks' : checks'[i].done /\ checks'[i].value]_vars

\* The resolver's answer opened the latch for a waiting subscription and a
\* waiting check(): the one got the user, the other true, nobody a failure.
C8_Witness ==
  /\ Restored
  /\ userRequiredFails = 0
  /\ \E i \in DOMAIN subs : subs[i].out = <<last.result>>
  /\ \E i \in DOMAIN checks : checks[i].done /\ checks[i].value

\* C9: a userRequired subscription emits nothing while the latch is false;
\* when the resolver's answer completes the activation, every subscription
\* receives the resolved user.
C9_UserRequiredWaits ==
  /\ [](~activated => \A i \in DOMAIN subs :
                        ~subs[i].attached /\ subs[i].out = <<>> /\ subs[i].timers = 0)
  /\ [][\A c \in BagToSet(pending), v \in Users :
          FindNext(c, v)
            => \A i \in DOMAIN subs' :
                 /\ subs'[i].attached
                 /\ subs'[i].out # <<>>
                 /\ subs'[i].out[Len(subs'[i].out)] = v]_vars

\* A subscription made before activation has received the resolved user and
\* nothing else, with another user-setting call made and finished meanwhile.
C9_Witness ==
  /\ Restored
  /\ subs = <<[attached |-> TRUE, out |-> <<last.result>>, timers |-> 0]>>
  /\ checks = <<>> /\ nCalls = 3 /\ pending = EmptyBag

\* C10: no check() is resolved while the latch is false and none is pending
\* while it is true; a check() resolves once, with (user != null) as it is
\* in the step that resolves it, and is not touched afterwards.
C10_Checks ==
  /\ [](\A i \in DOMAIN checks :
          /\ checks[i].done <=> activated
          /\ checks[i].n = IF checks[i].done THEN 1 ELSE 0)
  /\ [][\A i \in DOMAIN checks' :
          IF i \in DOMAIN checks /\ checks[i].done
          THEN checks'[i] = checks[i]
          ELSE checks'[i].done => checks'[i].value = (currentUser' # NULL)]_vars

\* Two check() calls were pending and the resolver's answer resolved both.
C10_Witness ==
  /\ Restored
  /\ Len(checks) = 2 /\ nCalls = 3
  /\ \A i \in DOMAIN checks : checks[i].done /\ checks[i].value /\ checks[i].n = 1

\* C11: in every reachable state the authenticated getter equals
\* (user != null) and so does the value authenticated$ delivered last; the
\* authenticated value changes only in a step that publishes a user.
C11_AuthenticatedFollowsUser ==
  /\ [](/\ Authenticated(currentUser) <=> currentUser # NULL
        /\ authenticatedLast <=> currentUser # NULL)
  /\ [][authenticatedLast' # authenticatedLast => userOut' = <<currentUser'>>]_vars

\* A logout has been answered: the user went from non-null to null and
\* authenticated$ went back to false.
C11_Witness ==
  /\ last = Event("logout", "next", NULL)
  /\ userOut = <<NULL>> /\ currentUser = NULL /\ ~authenticatedLast
  /\ \E i \in DOMAIN checks : checks[i].done /\ checks[i].value

\* C12: every setUser(u) leaves u in the user cell and delivers exactly the
\* one value u on user$, also when u is null or equal to the user held
\* before; so n calls deliver their n arguments in call order.
C12_SetUserSequence ==
  /\ [][\A u \in Users \cup {NULL} :
          SetUser(u) => currentUser' = u /\ userOut' = <<u>>]_vars
  /\ [](userOut = <<>> \/ userOut = <<currentUser>>)

\* setUser(u1) on a service already holding u1: u1 was delivered again, on
\* user$ and to the userRequired$ subscription.
C12_Witness ==
  /\ last = Event("call", "returned", NULL)
  /\ userOut = <<"u1">> /\ currentUser = "u1"
  /\ \E i \in DOMAIN subs : subs[i].out = <<"u1", "u1">>

\* C13: without an AuthBackend every attempt, register and logout throws
\* MissingBackendError at the call and leaves the user, the token, the latch
\* and the calls in flight as they were.
C13_MissingBackend ==
  /\ [](~backend /\ last.op \in {"attempt", "register", "logout"}
          => last = Event(last.op, "threw", "MissingBackendError"))
  /\ [][~backend /\ last'.op \in {"attempt", "register", "logout"}
          => /\ currentUser' = currentUser /\ userOut' = <<>>
             /\ token' = token /\ activated' = activated
             /\ pending' = pending]_vars

\* logout() threw on an activated service holding a user and a token.
C13_Witness ==
  /\ last = Event("logout", "threw", "MissingBackendError")
  /\ ~backend /\ activated /\ currentUser \in Users /\ token = <<"a">>

\* C14: when the exchanger answers an attempt with user v, the stored user
\* becomes parseUser(v) with a User Resolver and v without one, authenticated
\* is true and that user reaches the caller; when the exchanger fails, its
\* error reaches the caller unchanged and the user is left as it was.
C14_Attempt ==
  [][/\ last'.op = "attempt" /\ last'.how = "next"
          => \A c \in BagToSet(pending), v \in Users :
               ExchangeNext(c, v)
                 => /\ currentUser' = IF userProvider # NULL
                                      THEN Normalize(userProvider, v) ELSE v
                    /\ userOut' = <<currentUser'>>
                    /\ Authenticated(currentUser') /\ authenticatedLast'
                    /\ last'.result = currentUser'
     /\ last'.op = "attempt" /\ last'.how = "error"
          => \A c \in BagToSet(pending), e \in Errors :
               ExchangeError(c, e)
                 => /\ last'.result = e
                    /\ currentUser' = currentUser /\ userOut' = <<>>
                    /\ authenticatedLast' = authenticatedLast]_vars

\* An attempt was answered on a service whose resolver overrides parseUser:
\* the normalized user is stored and authenticated$ has gone to true.
C14_Witness ==
  /\ userProvider = "custom"
  /\ last = Event("attempt", "next", Normalize("custom", "u2"))
  /\ currentUser = Normalize("custom", "u2") /\ authenticatedLast

\* C15: logout() hands the exchanger's delete-session the user held at the
\* call and changes nothing yet; when delete-session succeeds the user
\* becomes null and authenticated false; when it fails the user is left as
\* it was and the error reaches the caller unchanged.
C15_Logout ==
  [][/\ last' = Event("logout", "returned", NULL)
          => /\ pending' = pending (+) SetToBag({Call("logout", currentUser)})
             /\ currentUser' = currentUser /\ userOut' = <<>>
     /\ last'.op = "logout" /\ last'.how = "next"
          => /\ \E c \in BagToSet(pending) :
                  c.kind = "logout" /\ pending' = pending (-) SetToBag({c})
             /\ currentUser' = NULL /\ userOut' = <<NULL>>
             /\ ~Authenticated(currentUser') /\ ~authenticatedLast'
     /\ last'.op = "logout" /\ last'.how = "error"
          => \A c \in BagToSet(pending), e \in Errors :
               ExchangeError(c, e)
                 => /\ last'.result = e
                    /\ currentUser' = currentUser /\ userOut' = <<>>]_vars

\* A logout made while u1 was logged in has been answered: the open
\* userRequired$ subscription had received u1 and now sees the null user.
C15_Witness ==
  /\ last = Event("logout", "next", NULL)
  /\ currentUser = NULL /\ ~authenticatedLast
  /\ \E i \in DOMAIN subs : subs[i].out = <<"u1">> /\ subs[i].timers = 2

\* C16: an error with status 401 passing the interceptor triggers exactly one
\* unauthorized notification, an error with any other status and every
\* response or other event triggers none; the event or error handed to the
\* caller is the one that came in.
C16_Unauthorized ==
  [][/\ unauthorized' =
          unauthorized + (IF http'.how = "error" /\ http'.event.status = 401
                          THEN 1 ELSE 0)
     /\ \A c \in BagToSet(pending) :
          /\ \A err \in HttpErrors :
               HttpError(c, err) => http'.how = "error" /\ http'.event = err
          /\ \A event \in HttpEvents :
               HttpNext(c, event) => http'.how = "next" /\ http'.event = event]_vars

\* Three requests were answered, one of them by a 401 error handed to the
\* caller last: one notification in all.
C16_Witness ==
  /\ http = Handed("error", <<>>, <<>>, HttpErrorResponse(401, NullToken))
  /\ unauthorized = 1 /\ nCalls = 3 /\ pending = EmptyBag

\* C17: the request the interceptor sends on is the request it was given when
\* the token held is null or empty, and otherwise carries the one
\* Authorization value 'Bearer ' + token, for the token held at that moment;
\* the token held is always the value published last on token$.
C17_Decorate ==
  /\ http.how = "sent"
       => http.sent = IF token = NullToken \/ token = <<>>
                      THEN http.req
                      ELSE <<Bearer \o token>>
  /\ tokenOut # <<>> => tokenOut = <<token>>

\* A request that came with an Authorization value of its own was sent with
\* the bearer token alone, on an activated session.
C17_Witness ==
  /\ http = Handed("sent", <<<<"x">>>>, <<Bearer \o <<"a">>>>, HttpSentEvent)
  /\ token = <<"a">> /\ activated

\* The part of a raw string after its last space or tab.
AfterLastWhitespace(raw) ==
  LET ws == {i \in 1..Len(raw) : raw[i] \in {" ", "\t"}}
  IN  IF ws = {} THEN raw
      ELSE SubSeq(raw, (CHOOSE i \in ws : \A j \in ws : j <= i) + 1, Len(raw))

\* C18 as stated: after setToken(raw) the token is the last
\* whitespace-separated segment of raw (raw itself without whitespace), and
\* the assignment is published on token$ also when the value is unchanged.
C18_LastWhitespaceSegment ==
  [][\A raw \in WideRawTokens :
       StateSetToken(raw)
         => token' = AfterLastWhitespace(raw) /\ tokenOut' = <<token'>>]_vars

\* C18, amended: after setToken(raw) the token is the part of raw after its
\* last space character, raw itself when it contains no space; a tab is not
\* a separator and a raw string ending in a space leaves the empty token.
\* Every assignment is published on token$, also when the value is unchanged.
C18_LastSpaceSegment ==
  [][\A raw \in WideRawTokens :
       StateSetToken(raw)
         => token' = AfterLastSpace(raw) /\ tokenOut' = <<token'>>]_vars

\* setToken was called with a tab before the token: the whole string is held
\* and was published.
C18_Witness ==
  /\ token = <<"\t", "a">> /\ tokenOut = <<token>>
  /\ http.how = "none"

SessionOps == {"attempt", "register", "logout", "activate"}

\* The step just taken handed a call to a port (last.how = "returned") or
\* delivered a port's answer; activate(null) involves no port.
PortCall   == last.op \in SessionOps /\ last.how = "returned"
PortAnswer == last.op \in SessionOps /\ last.how \in {"next", "error"}
                /\ last # Event("activate", "next", NULL)

\* C19: session operations in flight together are answered one by one: every
\* call adds one call in flight, also next to an equal one, every answer ends
\* exactly one and leaves the others in flight; a successful answer writes
\* its user over whatever is held (a failed one writes nothing), so the user
\* held is the one written by the answer delivered last.
C19_LastCompletionWins ==
  /\ [][/\ PortCall' => BagCardinality(pending') = BagCardinality(pending) + 1
        /\ PortAnswer'
             => /\ BagCardinality(pending') = BagCardinality(pending) - 1
                /\ \E c \in BagToSet(pending) :
                     c.kind = last'.op /\ pending' = pending (-) SetToBag({c})
        /\ PortAnswer' /\ last'.how = "error"
             => currentUser' = currentUser /\ userOut' = <<>>]_vars
  /\ [](PortAnswer /\ last.how = "next"
          => /\ currentUser = IF last.op = "logout" THEN NULL ELSE last.result
             /\ userOut = <<currentUser>>)

\* A logout was answered while a resolver call made before it is still in
\* flight, next to a login.
C19_Witness ==
  /\ last = Event("logout", "next", NULL)
  /\ currentUser = NULL
  /\ BagIn(Call("activate", "id1"), pending)
  /\ BagIn(Call("attempt", "c1"), pending)

\* C20: a step of attempt, register or logout, at the call or at the answer,
\* and every setUser leave the token as it is and publish nothing on token$;
\* a step that stores a token, other than activate, and every step of the
\* interceptor leave the user, the latch and what is gated on it unchanged.
C20_TokenUserIndependent ==
  [][/\ last'.op \in {"attempt", "register", "logout"}
          => token' = token /\ tokenOut' = <<>>
     /\ (\E u \in Users \cup {NULL} : SetUser(u))
          => token' = token /\ tokenOut' = <<>>
     /\ (tokenOut' # <<>> /\ last'.op # "activate") \/ http'.how # "none"
          => /\ currentUser' = currentUser /\ userOut' = <<>>
             /\ authenticatedLast' = authenticatedLast
             /\ activated' = activated /\ activatedSeen' = activatedSeen
             /\ subs' = subs /\ checks' = checks]_vars

\* A logout has been answered on an activated session holding the token
\* "a": the user is gone, the token is still held.
C20_Witness ==
  /\ last = Event("logout", "next", NULL)
  /\ currentUser = NULL /\ userOut = <<NULL>>
  /\ token = <<"a">> /\ activated /\ nCalls = 3

\* C21: register(credentials, extra) with an AuthBackend hands the backend's
\* createUserFromCredentials both the credentials and the extra value the
\* caller gave (a call without extra hands over the credentials alone).
C21_RegisterPassesExtra ==
  [][\A cr \in Creds, extra \in Extras :
       /\ last' = Event("register", "returned", NULL)
       /\ Register(cr, extra)
       /\ extra # NULL
       => \E c \in BagToSet(pending') :
            /\ c.kind = "register"
            /\ c.req = cr
            /\ "extra" \in DOMAIN c
            /\ c.extra = extra]_vars

\* C22: with the latch open, every non-null user set is delivered at once
\* to each userRequired$ subscription, appended after the values delivered
\* before, also while the subscription holds delayed nulls; a null user
\* delivers nothing at that step and only starts its delay; no step closes
\* a subscription or takes back a delivered value.
C22_UserRequiredAfterNull ==
  [][/\ activated /\ userOut' # <<>> =>
          \A i \in DOMAIN subs :
            /\ subs[i].attached
            /\ subs'[i].attached
            /\ IF currentUser' # NULL
               THEN /\ subs'[i].out = Append(subs[i].out, currentUser')
                    /\ subs'[i].timers = subs[i].timers
               ELSE /\ subs'[i].out = subs[i].out
                    /\ subs'[i].timers = subs[i].timers + 1
     /\ subs' # subs =>
          \A i \in DOMAIN subs :
            /\ i \in DOMAIN subs'
            /\ subs[i].attached => subs'[i].attached
            /\ Len(subs'[i].out) >= Len(subs[i].out)
            /\ SubSeq(subs'[i].out, 1, Len(subs[i].out)) = subs[i].out]_vars

C22_Witness ==
  /\ activated /\ userOut = <<"u2">>
  /\ \E i \in DOMAIN subs :
       /\ subs[i].attached
       /\ subs[i].timers = 1
       /\ subs[i].out = <<"u1", "u2">>

\* C23: a call activate(userId, token) that throws (a null user id with the
\* latch open, or a non-null user id without a UserProvider) leaves the
\* user, the latch, the subscriptions and the pending calls as they were;
\* the token argument is applied all the same: for a non-null token the
\* held token afterwards is that argument parsed and token$ emits it, for
\* a null token the held token stays.
C23_FailedActivateSetsToken ==
  [][last'.op = "activate" /\ last'.how = "threw" =>
       /\ currentUser' = currentUser /\ userOut' = <<>>
       /\ UNCHANGED <<activated, activatedSeen, authenticatedLast,
                      subs, checks, pending, userRequiredFails>>
       /\ \A t \in TokenArgs :
          \A userId \in (IF last'.result = "ReactivationError"
                          THEN {NULL} ELSE UserIds) :
            Activate(userId, t) =>
              IF t # NullToken
              THEN /\ token' = AfterLastSpace(t)
                   /\ tokenOut' = <<token'>>
              ELSE /\ token' = token
                   /\ tokenOut' = <<>>]_vars

C23_Witness ==
  /\ last = Event("activate", "threw", "ReactivationError")
  /\ activated /\ currentUser = "u1"
  /\ token = <<"a">> /\ tokenOut = << <<"a">> >>
====
